---------------------------- MODULE Spec2Model ----------------------------
(***************************************************************************)
(* md3d: a markdown document is compiled into a Blender slide-deck scene.  *)
(* The model follows src/src/md3d/main.py: main() and the functions it     *)
(* calls, one action per externally visible step of a run.                 *)
(*                                                                         *)
(* Text is a sequence of one-character strings; indices of the string      *)
(* helpers are 0-based as in Python.  Lengths and coordinates that Python  *)
(* computes with floats are exact rationals <<numerator, denominator>>.    *)
(***************************************************************************)
EXTENDS Integers, Sequences, FiniteSets, TLC

-----------------------------------------------------------------------------
(* Bounds of the model *)

\* lines of an input document
MaxLines == 3
\* curve objects one SVG import creates
MaxCurves == 1
\* length of the texts split_markdown is applied to in SpecSplit
MaxLen == 7

-----------------------------------------------------------------------------
(* Program constants *)

\* import_and_position_images(..., text_plane_width=2)
text_plane_width == 2
\* import_and_transform_svgs(svg_files, offset_x=3)
offset_x == 3
\* backdrop_height = 10
backdrop_height == 10
\* backdrop_width = len(svg_files) * 6
backdrop_unit == 6

-----------------------------------------------------------------------------
(* Python str helpers *)

Min(S) == CHOOSE x \in S : \A y \in S : x <= y

\* s.find(sub, start): lowest 0-based index >= start where sub occurs, else -1
Find(s, sub, start) ==
  LET cands == { i \in start..(Len(s) - Len(sub)) :
                   \A j \in 1..Len(sub) : s[i + j] = sub[j] }
  IN IF cands = {} THEN -1 ELSE Min(cands)

\* s[a:b] for 0 <= a, 0 <= b
Slice(s, a, b) == SubSeq(s, a + 1, IF b > Len(s) THEN Len(s) ELSE b)

\* s.startswith(p)
StartsWith(s, p) == Len(s) >= Len(p) /\ SubSeq(s, 1, Len(p)) = p

\* s.endswith(p)
EndsWith(s, p) == Len(s) >= Len(p) /\ SubSeq(s, Len(s) - Len(p) + 1, Len(s)) = p

\* sub in s
Contains(s, sub) == Find(s, sub, 0) # -1

\* s.split(sep) with a non-empty separator
RECURSIVE str_split(_, _)
str_split(s, sep) ==
  LET p == Find(s, sep, 0)
  IN IF p = -1 THEN <<s>>
     ELSE <<Slice(s, 0, p)>> \o str_split(Slice(s, p + Len(sep), Len(s)), sep)

\* sep.join(parts)
RECURSIVE str_join(_, _)
str_join(parts, sep) ==
  IF Len(parts) = 0 THEN <<>>
  ELSE IF Len(parts) = 1 THEN parts[1]
  ELSE parts[1] \o sep \o str_join(Tail(parts), sep)

\* list.index(x) of the first element equal to x (0-based); x is in the list
ListIndex(l, x) == Min({ i \in 1..Len(l) : l[i] = x }) - 1

\* list.remove(x): the list without its FIRST element equal to x
ListRemove(l, x) ==
  LET k == ListIndex(l, x) + 1
  IN SubSeq(l, 1, k - 1) \o SubSeq(l, k + 1, Len(l))

NL == <<"\n">>
Delimiter == <<"-", "-", "-">>

-----------------------------------------------------------------------------
(* Exact rationals <<n, d>>, d > 0 *)

Rat(n) == <<n, 1>>
RatAdd(a, b) == <<a[1] * b[2] + b[1] * a[2], a[2] * b[2]>>
RatSub(a, b) == <<a[1] * b[2] - b[1] * a[2], a[2] * b[2]>>
RatMul(a, b) == <<a[1] * b[1], a[2] * b[2]>>
\* a / b for b > 0
RatDiv(a, b) == <<a[1] * b[2], a[2] * b[1]>>
RatEq(a, b) == a[1] * b[2] = b[1] * a[2]

-----------------------------------------------------------------------------
(* State *)

VARIABLES
  platform,             \* platform.system()
  install_path_exists,  \* ~/.md3d/inkscape exists on disk
  binary_present,       \* the file inkscape.binary names can be executed
  pc,                   \* position of main()
  input_md_content,     \* text of the input document
  install_result,       \* how the ensure-installed step of this run ended
  install_calls,        \* downloads / extraction-or-build calls of this run
  image_links,          \* links collected by download_images_from_markdown
  fetch,                \* outcome of resolving each link
  image_paths,          \* returned path list
  cleaned_md_content,   \* returned document text
  written,              \* files written by download_images_from_markdown
  markdown_sections,    \* result of split_markdown
  pdfs,                 \* section indices convert_md_to_pdf produced a page for
  svg_files,            \* list convert_to_svgs builds (section indices)
  svg_made,             \* section indices whose SVG the tool wrote in this run
  tool_failed,          \* section indices for which the tool exited non-zero
  objects,              \* bpy.data.objects
  existing_objects,     \* import_and_transform_svgs: indices into objects
  keyframes,            \* camera location keyframes: {<<frame, x>>}
  backdrop,             \* <<>> or <<[width, height, x]>>
  saved                 \* save_blend_file was called in this run

vars == <<platform, install_path_exists, binary_present, pc, input_md_content,
          install_result, install_calls, image_links, fetch, image_paths,
          cleaned_md_content, written, markdown_sections, pdfs, svg_files,
          svg_made, tool_failed, objects, existing_objects, keyframes,
          backdrop, saved>>

fsVars == <<platform, install_path_exists, binary_present>>
installVars == <<install_result, install_calls>>
extractVars == <<image_links, fetch, image_paths, cleaned_md_content, written>>
renderVars == <<markdown_sections, pdfs, svg_files, svg_made, tool_failed>>
sceneVars == <<objects, existing_objects, keyframes, backdrop, saved>>

Platforms == {"Windows", "Darwin", "Linux"}

-----------------------------------------------------------------------------
(* Input documents *)

LocalMarker == <<"!", "[", "]", "(", "a", ")">>
RemoteMarker == <<"!", "[", "]", "(", "h", "t", "t", "p", ")">>
TextLine == <<"#">>

LinePool == {LocalMarker, RemoteMarker, TextLine, Delimiter}

RECURSIVE SeqsUpTo(_, _)
SeqsUpTo(S, n) ==
  IF n = 0 THEN {<<>>}
  ELSE LET shorter == SeqsUpTo(S, n - 1)
       IN shorter \cup { Append(q, x) : q \in { r \in shorter : Len(r) = n - 1 }, x \in S }

Documents == { str_join(ls, NL) : ls \in SeqsUpTo(LinePool, MaxLines) \ {<<>>} }

SplitTexts == SeqsUpTo({"-", "a"}, MaxLen)

\* <<img.width, img.height>> of an embedded image: square, landscape, portrait
ImageSizes == {<<1, 1>>, <<2, 1>>, <<1, 2>>}

-----------------------------------------------------------------------------
(* State after module import (line 437) and before main() *)

RunStart ==
  /\ install_result = "none"
  /\ install_calls = [downloads |-> 0, extractions |-> 0]
  /\ image_links = <<>>
  /\ fetch = <<>>
  /\ image_paths = <<>>
  /\ cleaned_md_content = <<>>
  /\ written = <<>>
  /\ markdown_sections = <<>>
  /\ pdfs = {}
  /\ svg_files = <<>>
  /\ svg_made = {}
  /\ tool_failed = {}
  /\ objects = <<>>
  /\ existing_objects = {}
  /\ keyframes = {}
  /\ backdrop = <<>>
  /\ saved = FALSE

Init ==
  /\ platform \in Platforms
  /\ install_path_exists \in BOOLEAN
  /\ binary_present \in BOOLEAN
  /\ binary_present => (install_path_exists /\ platform = "Darwin")
  /\ input_md_content \in Documents
  /\ pc = "install"
  /\ RunStart

-----------------------------------------------------------------------------
(* ToolInstaller: InkscapeInstaller and its platform variants *)

\* a variant with the existence test inverted
is_installed_inverted(pathExists) == ~pathExists

\* InkscapeInstaller.is_installed (the subclasses derive from the first
\* InkscapeInstaller, whose __init__ creates nothing)
is_installed(pathExists) == pathExists

InstallOutcome(result, pathExists, binary, downloads, extractions) ==
  [result |-> result, path_exists |-> pathExists, binary |-> binary,
   downloads |-> downloads, extractions |-> extractions]

\* WindowsInkscapeInstaller.install: status is the response status, stepOk
\* whether 7z exits zero.  The archive is written inside install_path, which
\* nothing creates: open() raises when the directory is missing.
WindowsInstall(pathExists, status, stepOk) ==
  IF status = 200
  THEN IF ~pathExists
       THEN InstallOutcome("raised", pathExists, FALSE, 1, 0)
       ELSE IF stepOk
            THEN InstallOutcome("ok", pathExists, FALSE, 1, 1)
            ELSE InstallOutcome("raised", pathExists, FALSE, 1, 1)
  ELSE InstallOutcome("non200", pathExists, FALSE, 1, 0)

\* MacOSInkscapeInstaller.install: mkdir of install_path comes first; stepOk
\* is whether DMGExtractor mounts and copies without raising.
MacOSInstall(pathExists, binary, status, stepOk) ==
  IF status = 200
  THEN IF stepOk
       THEN InstallOutcome("ok", TRUE, TRUE, 1, 1)
       ELSE InstallOutcome("raised", TRUE, binary, 1, 1)
  ELSE InstallOutcome("non200", TRUE, binary, 1, 0)

\* LinuxInkscapeInstaller.install: srcDir is whether ~/inkscape_source exists
\* (open() of the archive raises otherwise); stepOk whether tar, cmake, make
\* and make install all exit zero.  binary stays None.
LinuxInstall(pathExists, status, srcDir, stepOk) ==
  IF status = 200
  THEN IF ~srcDir
       THEN InstallOutcome("raised", pathExists, FALSE, 1, 0)
       ELSE IF stepOk
            THEN InstallOutcome("ok", TRUE, FALSE, 1, 1)
            ELSE InstallOutcome("raised", pathExists, FALSE, 1, 1)
  ELSE InstallOutcome("non200", pathExists, FALSE, 1, 0)

Statuses == {200, 404}

\* main, lines 443-444, after install() returned or raised
AfterInstall(o) ==
  /\ install_result' = o.result
  /\ install_calls' = [downloads |-> o.downloads, extractions |-> o.extractions]
  /\ install_path_exists' = o.path_exists
  /\ binary_present' = o.binary
  /\ pc' = IF o.result = "raised" THEN "aborted" ELSE "extract"
  /\ UNCHANGED <<platform, input_md_content, extractVars, renderVars, sceneVars>>

\* main: is_installed() is true, install() is not called
SkipInstall ==
  /\ pc = "install"
  /\ is_installed(install_path_exists)
  /\ install_result' = "skipped"
  /\ pc' = "extract"
  /\ UNCHANGED <<fsVars, input_md_content, install_calls, extractVars,
                 renderVars, sceneVars>>

InstallWindows ==
  /\ pc = "install"
  /\ ~is_installed(install_path_exists)
  /\ platform = "Windows"
  /\ \E status \in Statuses, stepOk \in BOOLEAN :
       AfterInstall(WindowsInstall(install_path_exists, status, stepOk))

InstallMacOS ==
  /\ pc = "install"
  /\ ~is_installed(install_path_exists)
  /\ platform = "Darwin"
  /\ \E status \in Statuses, stepOk \in BOOLEAN :
       AfterInstall(MacOSInstall(install_path_exists, binary_present, status, stepOk))

InstallLinux ==
  /\ pc = "install"
  /\ ~is_installed(install_path_exists)
  /\ platform = "Linux"
  /\ \E status \in Statuses, srcDir \in BOOLEAN, stepOk \in BOOLEAN :
       AfterInstall(LinuxInstall(install_path_exists, status, srcDir, stepOk))

-----------------------------------------------------------------------------
(* AssetExtractor: download_images_from_markdown *)

\* line 169
IsMarker(line) ==
  /\ StartsWith(line, <<"!", "[">>)
  /\ Contains(line, <<"]", "(">>)
  /\ EndsWith(line, <<")">>)

\* lines 170-172 (on a marker line link_end is never -1)
LinkOf(line) ==
  LET link_start == Find(line, <<"]", "(">>, 0) + 2
      link_end == Find(line, <<")">>, link_start)
  IN Slice(line, link_start, link_end)

\* lines 168-175: a for loop over the list it removes from; idx is the
\* position of the list iterator
RECURSIVE ScanLines(_, _, _)
ScanLines(lines, idx, links) ==
  IF idx >= Len(lines) THEN [lines |-> lines, links |-> links]
  ELSE LET line == lines[idx + 1]
       IN IF IsMarker(line)
          THEN ScanLines(ListRemove(lines, line), idx + 1, Append(links, LinkOf(line)))
          ELSE ScanLines(lines, idx + 1, links)

IsRemote(link) == StartsWith(link, <<"h", "t", "t", "p">>)

\* os.path.basename: what follows the last "/"
Basename(p) ==
  LET slashes == { i \in 1..Len(p) : p[i] = "/" }
  IN IF slashes = {} THEN p
     ELSE SubSeq(p, (CHOOSE i \in slashes : \A j \in slashes : j <= i) + 1, Len(p))

\* base_dir / basename(urlparse(link).path); the links of LinePool have no
\* scheme separator, query or fragment, so urlparse(link).path is the link
RemotePath(link) == [dir |-> "images", name |-> Basename(link)]
\* Path(link)
LocalPath(link) == [dir |-> "", name |-> link]

FetchOutcomes(link) ==
  IF IsRemote(link) THEN {"ok", "non200", "exc"} ELSE {"ok", "missing"}

\* lines 178-197.  img_path and img_data are function locals that keep their
\* value from one iteration to the next: <<>> is "not yet bound".
\* oc[k]: "ok" (status 200 / file read), "non200", "exc" (requests raised:
\* the except clause names a module and raises TypeError), "missing" (the
\* handler raises a str, a TypeError)
RECURSIVE ResolveLinks(_, _, _, _)
ResolveLinks(links, oc, k, st) ==
  IF k > Len(links) THEN st
  ELSE
    LET link == links[k]
        bound ==
          IF IsRemote(link)
          THEN IF oc[k] = "ok"
               THEN [st EXCEPT !.img_data = <<[src |-> link]>>,
                               !.img_path = <<RemotePath(link)>>]
               ELSE st
          ELSE IF oc[k] = "ok"
               THEN [st EXCEPT !.img_path = <<LocalPath(link)>>,
                               !.img_data = <<[src |-> link]>>]
               ELSE [st EXCEPT !.img_path = <<LocalPath(link)>>]
        raised == oc[k] \in {"exc", "missing"} \/ bound.img_path = <<>>
    IN IF raised
       THEN [bound EXCEPT !.error = TRUE, !.done = k]
       ELSE ResolveLinks(links, oc, k + 1,
              [bound EXCEPT !.writes = Append(@, [path |-> bound.img_path[1],
                                                   data |-> bound.img_data[1]]),
                            !.paths = Append(@, bound.img_path[1]),
                            !.done = k])

ResolveStart ==
  [img_path |-> <<>>, img_data |-> <<>>, paths |-> <<>>, writes |-> <<>>,
   error |-> FALSE, done |-> 0]

\* main line 454: download_images_from_markdown(input_md_content, base_dir)
DownloadImages ==
  /\ pc = "extract"
  /\ LET scan == ScanLines(str_split(input_md_content, NL), 0, <<>>)
         links == scan.links
     IN \E oc \in [1..Len(links) -> {"ok", "non200", "exc", "missing"}] :
          /\ \A k \in 1..Len(links) : oc[k] \in FetchOutcomes(links[k])
          /\ \A j, k \in 1..Len(links) :
               (links[j] = links[k] /\ ~IsRemote(links[j])) => oc[j] = oc[k]
          /\ LET r == ResolveLinks(links, oc, 1, ResolveStart)
             IN /\ image_links' = links
                /\ fetch' = SubSeq(oc, 1, r.done)
                /\ written' = r.writes
                /\ IF r.error
                   THEN /\ pc' = "aborted"
                        /\ UNCHANGED <<image_paths, cleaned_md_content>>
                   ELSE /\ pc' = "segment"
                        /\ image_paths' = r.paths
                        /\ cleaned_md_content' = str_join(scan.lines, NL)
  /\ UNCHANGED <<fsVars, input_md_content, installVars, renderVars, sceneVars>>

-----------------------------------------------------------------------------
(* SectionSegmenter and SlideRenderer *)

\* a variant that drops empty sections
split_markdown_dropEmpty(md_content) ==
  SelectSeq(str_split(md_content, Delimiter), LAMBDA x : x # <<>>)

\* split_markdown: md_content.split('---')
split_markdown(md_content) == str_split(md_content, Delimiter)

\* main line 457
Segment ==
  /\ pc = "segment"
  /\ markdown_sections' = split_markdown(cleaned_md_content)
  /\ pc' = "render"
  /\ UNCHANGED <<fsVars, input_md_content, installVars, extractVars, pdfs,
                 svg_files, svg_made, tool_failed, sceneVars>>

\* a variant that leaves an empty section out of the list
svg_filenames_append_nonEmpty(svg_filenames, i, section) ==
  IF section = <<>> THEN svg_filenames ELSE Append(svg_filenames, i)

\* line 350: svg_filenames.append(str(output_svg)); the path of section i is
\* written as i
svg_filenames_append(svg_filenames, i, section) == Append(svg_filenames, i)

\* one iteration of convert_to_svgs (lines 345-350) for section i:
\* convert_md_to_pdf, then convert_pdf_to_svg, then the append.
\* subprocess.run raises FileNotFoundError, which nothing catches, when
\* inkscape.binary cannot be executed; CalledProcessError is caught.
RenderSection ==
  /\ pc = "render"
  /\ Cardinality(pdfs) < Len(markdown_sections)
  /\ LET i == Cardinality(pdfs)
     IN /\ pdfs' = pdfs \cup {i}
        /\ IF ~binary_present
           THEN /\ pc' = "aborted"
                /\ UNCHANGED <<svg_files, svg_made, tool_failed>>
           ELSE \E exit \in {"zero", "nonzero"} :
                  /\ svg_made' = IF exit = "zero" THEN svg_made \cup {i} ELSE svg_made
                  /\ tool_failed' = IF exit = "zero" THEN tool_failed
                                    ELSE tool_failed \cup {i}
                  /\ svg_files' = svg_filenames_append(svg_files, i,
                                                       markdown_sections[i + 1])
                  /\ pc' = "render"
  /\ UNCHANGED <<fsVars, input_md_content, installVars, extractVars,
                 markdown_sections, sceneVars>>

-----------------------------------------------------------------------------
(* SceneComposer *)

\* dim_x: the value of obj.dimensions.x the program read, <<1, 1>> if none
Object(kind, i, x, scale_x, thickness, dim_x) ==
  [kind |-> kind, i |-> i, x |-> x, scale_x |-> scale_x, thickness |-> thickness,
   dim_x |-> dim_x]

\* lines 267-269
right_edge_text_plane(i, width) == RatAdd(Rat(i * width), RatDiv(Rat(width), Rat(2)))

\* plane.dimensions.x of the size-1 plane, read right after
\* plane.scale.x = img_aspect: the host derives it from the object's
\* evaluated matrix, so it shows the new scale only if the host has
\* re-evaluated the object by then
plane_dimensions_x(scale_x, evaluated) ==
  IF evaluated THEN RatMul(Rat(1), scale_x) ELSE Rat(1)

\* line 271: plane.location.x
image_location_x(i, scale_x, dim_x, width) ==
  RatAdd(RatSub(right_edge_text_plane(i, width), RatDiv(dim_x, Rat(2))),
         RatDiv(Rat(i), scale_x))

\* main lines 458-467: convert_to_svgs returns; the default objects are removed, the material is made
ComposeBegin ==
  /\ pc = "render"
  /\ Cardinality(pdfs) = Len(markdown_sections)
  /\ objects' = <<>>
  /\ pc' = "images"
  /\ UNCHANGED <<fsVars, input_md_content, installVars, extractVars, renderVars,
                 existing_objects, keyframes, backdrop, saved>>

\* one iteration of import_and_position_images (lines 244-293)
PlaceImage ==
  /\ pc = "images"
  /\ Len(objects) < Len(image_paths)
  /\ \E size \in ImageSizes, evaluated \in BOOLEAN :
       LET i == Len(objects)
           img_aspect == RatDiv(Rat(size[1]), Rat(size[2]))
           dim_x == plane_dimensions_x(img_aspect, evaluated)
       IN objects' = Append(objects,
            Object("Image", i,
                   image_location_x(i, img_aspect, dim_x, text_plane_width),
                   img_aspect, Rat(0), dim_x))
  /\ UNCHANGED <<fsVars, pc, input_md_content, installVars, extractVars,
                 renderVars, existing_objects, keyframes, backdrop, saved>>

\* main lines 472-475, and lines 369-371 of import_and_transform_svgs
AddCamera ==
  /\ pc = "images"
  /\ Len(objects) = Len(image_paths)
  /\ objects' = Append(objects, Object("Camera", 0, Rat(0), Rat(1), Rat(0), Rat(1)))
  /\ existing_objects' = 1..Len(objects')
  /\ pc' = "svgs"
  /\ UNCHANGED <<fsVars, input_md_content, installVars, extractVars, renderVars,
                 keyframes, backdrop, saved>>

\* a variant that misses the background plane, as if existing_objects were
\* refreshed after the plane is added
new_objects_importedOnly(objs, existing) ==
  { k \in 1..Len(objs) : k \notin existing /\ objs[k].kind # "Slide" }

\* lines 395-398: the objects of bpy.data.objects not yet in existing_objects
new_objects(objs, existing) == { k \in 1..Len(objs) : k \notin existing }

\* 'Slide' in obj.name: the plane is named "Slide i"; imported curves are
\* named after the SVG's elements
HasSlideName(obj) == obj.kind = "Slide"

\* lines 406-424
TransformObject(obj, i) ==
  IF ~HasSlideName(obj)
  THEN [obj EXCEPT !.scale_x = Rat(10),
                   !.x = RatSub(Rat(i * offset_x), <<9, 10>>),
                   !.thickness = <<10, 10000>>]
  ELSE [obj EXCEPT !.x = Rat(i * offset_x), !.thickness = <<2, 100>>]

\* frame_set(frame); camera.location.x = x; keyframe_insert('location')
keyframe_insert(kf, frame, x) == { q \in kf : q[1] # frame } \cup {<<frame, x>>}

\* lines 403-431: the loop over new_objects, the keyframe inside it
RECURSIVE TransformNew(_, _, _, _)
TransformNew(objs, todo, i, kf) ==
  IF todo = {} THEN [objects |-> objs, keyframes |-> kf]
  ELSE LET k == Min(todo)
       IN TransformNew([objs EXCEPT ![k] = TransformObject(objs[k], i)],
                       todo \ {k}, i, keyframe_insert(kf, i + 1, offset_x * i))

SlidePanels == { k \in 1..Len(objects) : objects[k].kind = "Slide" }
Curves(i) == { k \in 1..Len(objects) : objects[k].kind = "Curve" /\ objects[k].i = i }

RECURSIVE WithCurves(_, _, _)
WithCurves(objs, i, n) ==
  IF n = 0 THEN objs
  ELSE WithCurves(Append(objs, Object("Curve", i, Rat(0), Rat(1), Rat(0), Rat(1))), i, n - 1)

\* one iteration of import_and_transform_svgs (lines 373-431) for svg_files[i].
\* fileThere: the SVG exists (written by this run, or left by an earlier one
\* under the same name); n: curve objects the import creates; raises: the
\* host raises on a file that is not there.
ImportSvg ==
  /\ pc = "svgs"
  /\ Cardinality(SlidePanels) < Len(svg_files)
  /\ LET i == Cardinality(SlidePanels)
         withPlane == Append(objects, Object("Slide", i, Rat(0), Rat(1), Rat(0), Rat(1)))
     IN \E fileThere \in BOOLEAN, n \in 0..MaxCurves, raises \in BOOLEAN :
          /\ svg_files[i + 1] \in svg_made => fileThere
          /\ fileThere => ~raises
          /\ ~fileThere => n = 0
          /\ IF raises
             THEN /\ objects' = withPlane
                  /\ pc' = "aborted"
                  /\ UNCHANGED <<existing_objects, keyframes>>
             ELSE LET imported == WithCurves(withPlane, i, n)
                      fresh == new_objects(imported, existing_objects)
                      r == TransformNew(imported, fresh, i, keyframes)
                  IN /\ objects' = r.objects
                     /\ keyframes' = r.keyframes
                     /\ existing_objects' = existing_objects \cup fresh
                     /\ pc' = "svgs"
  /\ UNCHANGED <<fsVars, input_md_content, installVars, extractVars, renderVars,
                 backdrop, saved>>

\* a variant sized by the slide pitch instead of the backdrop unit
backdrop_width_pitch(files) == Len(files) * offset_x

\* line 513
backdrop_width(files) == Len(files) * backdrop_unit

\* main lines 480-545.  screen: bpy.context.screen is there (it is None
\* without a window, and the loop over its areas then raises)
Finish ==
  /\ pc = "svgs"
  /\ Cardinality(SlidePanels) = Len(svg_files)
  /\ \E screen \in BOOLEAN :
       IF ~screen
       THEN /\ pc' = "aborted"
            /\ UNCHANGED <<backdrop, saved>>
       ELSE /\ backdrop' = <<[width |-> backdrop_width(svg_files),
                              height |-> backdrop_height,
                              x |-> RatSub(RatDiv(Rat(backdrop_width(svg_files)), Rat(2)),
                                           <<1, 2>>)]>>
            /\ saved' = TRUE
            /\ pc' = "saved"
  /\ UNCHANGED <<fsVars, input_md_content, installVars, extractVars, renderVars,
                 objects, existing_objects, keyframes>>

\* the program is run again on the same document; the disk keeps its state
Restart ==
  /\ pc \in {"saved", "aborted"}
  /\ pc' = "install"
  /\ install_result' = "none"
  /\ install_calls' = [downloads |-> 0, extractions |-> 0]
  /\ image_links' = <<>>
  /\ fetch' = <<>>
  /\ image_paths' = <<>>
  /\ cleaned_md_content' = <<>>
  /\ written' = <<>>
  /\ markdown_sections' = <<>>
  /\ pdfs' = {}
  /\ svg_files' = <<>>
  /\ svg_made' = {}
  /\ tool_failed' = {}
  /\ objects' = <<>>
  /\ existing_objects' = {}
  /\ keyframes' = {}
  /\ backdrop' = <<>>
  /\ saved' = FALSE
  /\ UNCHANGED <<fsVars, input_md_content>>

Next ==
  \/ SkipInstall
  \/ InstallWindows
  \/ InstallMacOS
  \/ InstallLinux
  \/ DownloadImages
  \/ Segment
  \/ RenderSection
  \/ ComposeBegin
  \/ PlaceImage
  \/ AddCamera
  \/ ImportSvg
  \/ Finish
  \/ Restart

Spec == Init /\ [][Next]_vars

-----------------------------------------------------------------------------
(* split_markdown on its own: every text over {"-", "a"} up to MaxLen *)

InitSplit ==
  /\ platform = "Linux"
  /\ install_path_exists = FALSE
  /\ binary_present = FALSE
  /\ input_md_content \in SplitTexts
  /\ pc = "split"
  /\ RunStart

ApplySplit ==
  /\ pc = "split"
  /\ markdown_sections' = split_markdown(input_md_content)
  /\ pc' = "split_done"
  /\ UNCHANGED <<fsVars, input_md_content, installVars, extractVars, pdfs,
                 svg_files, svg_made, tool_failed, sceneVars>>

NextSplit == ApplySplit

SpecSplit == InitSplit /\ [][NextSplit]_vars

-----------------------------------------------------------------------------
(* Properties *)

ImagePanels == { k \in 1..Len(objects) : objects[k].kind = "Image" }

\* centre x plus half the panel's width, the width of the scaled size-1
\* plane being its aspect ratio
RightEdge(obj) == RatAdd(obj.x, RatDiv(obj.scale_x, Rat(2)))

\* C1: the right edge of every image panel placed by
\* import_and_position_images (its width read as its aspect ratio) equals
\* i*p + p/2 for its index i and the pitch p, whatever the aspect ratio.
C1_RightEdgeAligned ==
  \A k \in ImagePanels :
    RatEq(objects[k].dim_x, objects[k].scale_x) =>
      RatEq(RightEdge(objects[k]),
            RatAdd(Rat(objects[k].i * text_plane_width), <<text_plane_width, 2>>))

\* the tool was there, or its install went through
InstallFine == install_result \in {"skipped", "ok"}

\* the links of the document's marker lines, in source order
MarkerLinks(doc) ==
  LET lines == str_split(doc, NL)
      marked == SelectSeq(lines, IsMarker)
  IN [k \in 1..Len(marked) |-> LinkOf(marked[k])]

ExpectedPath(link) == IF IsRemote(link) THEN RemotePath(link) ELSE LocalPath(link)

\* C2: when download_images_from_markdown returns (every link resolved), the
\* path list has one entry per marker line of the document, the i-th entry
\* being the path of the i-th marker line.
C2_OnePathPerMarker ==
  (pc = "segment" /\ InstallFine /\ \A k \in 1..Len(fetch) : fetch[k] = "ok") =>
    LET links == MarkerLinks(input_md_content)
    IN /\ Len(image_paths) = Len(links)
       /\ \A k \in 1..Len(links) : image_paths[k] = ExpectedPath(links[k])

ComposeDone ==
  \/ pc = "saved"
  \/ pc = "svgs" /\ Cardinality(SlidePanels) = Len(svg_files)

\* C3: after scene composition of N slide assets the camera has keyframes at
\* exactly the frames 1..N, and the X recorded at frame f is 3*(f-1).
C3_CameraFrames ==
  ComposeDone =>
    /\ Len(svg_files) >= 1
    /\ { q[1] : q \in keyframes } = 1..Len(svg_files)
    /\ Cardinality(keyframes) = Len(svg_files)
    /\ \A q \in keyframes : q[2] = 3 * (q[1] - 1)

\* a saved deck of several slides, one import having created no curve object
\* and another at least one
C3_Witness ==
  /\ pc = "saved"
  /\ Len(svg_files) >= 2
  /\ \E i \in 0..(Len(svg_files) - 1) : Curves(i) = {}
  /\ \E i \in 0..(Len(svg_files) - 1) : Curves(i) # {}

\* C4: once the fetch of a remote reference returned a non-success status,
\* first or later in the list, the run is aborted: no path list is returned,
\* no file is written for that reference, no scene is saved.
C4_FailedFetchAborts ==
  \A k \in 1..Len(fetch) :
    (InstallFine /\ IsRemote(image_links[k]) /\ fetch[k] = "non200") =>
      /\ pc = "aborted"
      /\ image_paths = <<>>
      /\ Len(written) < k
      /\ ~saved

\* C5: a section for which the conversion tool exited non-zero is missing
\* from the deck: it is not among the slide assets handed to scene
\* composition and no slide panel is made for it.
C5_FailedSectionMissing ==
  \A i \in tool_failed :
    /\ \A j \in 1..Len(svg_files) : svg_files[j] # i
    /\ \A k \in SlidePanels : svg_files[objects[k].i + 1] # i

\* C6: after a failed install (non-200 download, or a failing extraction or
\* build step) the run does nothing more: no section becomes a page or a
\* vector asset, nothing is composed, nothing is saved.
C6_FailedInstallAborts ==
  install_result \in {"non200", "raised"} =>
    /\ pdfs = {}
    /\ svg_files = <<>>
    /\ objects = <<>>
    /\ ~saved

\* C7: after install() ended on a non-200 download the tool does not count
\* as installed, on any platform.
C7_NotInstalledAfterNon200 ==
  install_result = "non200" => ~is_installed(install_path_exists)

\* start positions (1-based) of the non-overlapping occurrences of the
\* delimiter, taken left to right: a match not covered by an earlier one
DelimiterStarts(t) ==
  LET n == Len(Delimiter)
      matches(p) == p + n - 1 <= Len(t) /\ SubSeq(t, p, p + n - 1) = Delimiter
      chosen[p \in 0..Len(t)] ==
        IF p = 0 THEN {}
        ELSE IF matches(p) /\ \A q \in chosen[p - 1] : q + n <= p
             THEN chosen[p - 1] \cup {p}
             ELSE chosen[p - 1]
  IN chosen[Len(t)]

\* the i-th smallest element of a set of numbers
Nth(S, i) == CHOOSE x \in S : Cardinality({ y \in S : y < x }) = i - 1

\* the text between the (i-1)-th and the i-th delimiter
BetweenDelimiters(t, S, i) ==
  LET from == IF i = 1 THEN 1 ELSE Nth(S, i - 1) + Len(Delimiter)
      to == IF i = Cardinality(S) + 1 THEN Len(t) ELSE Nth(S, i) - 1
  IN SubSeq(t, from, to)

\* C8: for a text with k occurrences of '---' split_markdown returns k+1
\* sections in order, section i being the text between delimiters i-1 and i
\* (empty when there is none), and joining them with '---' gives the text.
C8_SplitSections ==
  pc = "split_done" =>
    LET t == input_md_content
        S == DelimiterStarts(t)
        r == markdown_sections
    IN /\ Len(r) = Cardinality(S) + 1
       /\ \A i \in 1..Len(r) : r[i] = BetweenDelimiters(t, S, i)
       /\ str_join(r, Delimiter) = t

\* a split text with two delimiters or more, an empty and a non-empty section
C8_Witness ==
  /\ pc = "split_done"
  /\ Cardinality(DelimiterStarts(input_md_content)) >= 2
  /\ \E i \in 1..Len(markdown_sections) : markdown_sections[i] = <<>>
  /\ \E i \in 1..Len(markdown_sections) : markdown_sections[i] # <<>>

NonEmptySections ==
  Cardinality({ i \in 1..Len(markdown_sections) : markdown_sections[i] # <<>> })

\* C9 as stated: in a composed and saved scene (no conversion having
\* failed) the number of slide panels, of camera keyframes and the count the
\* backdrop is sized from all equal the number of non-empty sections.
C9_SlidesAreNonEmptySections ==
  (pc = "saved" /\ tool_failed = {}) =>
    /\ Cardinality(SlidePanels) = NonEmptySections
    /\ Cardinality(keyframes) = NonEmptySections
    /\ backdrop[1].width = 6 * NonEmptySections

\* C9: in a composed and saved scene the number of slide panels, of camera
\* keyframes and the count the backdrop is sized from all equal the number
\* of sections of the document, k+1 for its k delimiters, empty sections
\* included.
C9_SlidesAreAllSections ==
  pc = "saved" =>
    LET n == Cardinality(DelimiterStarts(cleaned_md_content)) + 1
    IN /\ Cardinality(SlidePanels) = n
       /\ Cardinality(keyframes) = n
       /\ backdrop[1].width = 6 * n

\* a saved deck with an empty section after a non-empty one
C9_Witness ==
  /\ pc = "saved"
  /\ Len(markdown_sections) >= 2
  /\ markdown_sections[1] # <<>>
  /\ markdown_sections[Len(markdown_sections)] = <<>>

\* C10: in a run that reaches the save the backdrop is 6 wide per slide
\* panel placed and 10 high, the count being that of the slide asset list.
C10_BackdropWidth ==
  pc = "saved" =>
    /\ Len(backdrop) = 1
    /\ backdrop[1].width = 6 * Cardinality(SlidePanels)
    /\ backdrop[1].width = 6 * Len(svg_files)
    /\ backdrop[1].height = 10

\* a saved deck of several slides whose image count differs from its slide
\* count and one of whose sections the tool failed on
C10_Witness ==
  /\ pc = "saved"
  /\ Cardinality(SlidePanels) >= 2
  /\ Cardinality(ImagePanels) # Cardinality(SlidePanels)
  /\ tool_failed # {}

NoInstallerCalls == [downloads |-> 0, extractions |-> 0]

\* C11: when the install path exists, the ensure-installed step of main
\* makes no download and no extract/mount/build call; a successful install
\* leaves the path in place and nothing removes it, so a run that follows an
\* install makes no such call either.
C11_InstalledMeansNoCalls ==
  [][ /\ (pc = "install" /\ install_path_exists /\ pc' # "install") =>
           /\ install_calls' = NoInstallerCalls
           /\ install_result' = "skipped"
      /\ install_result' = "ok" => install_path_exists'
      /\ install_path_exists => install_path_exists' ]_vars

\* the ensure-installed step has just run with the tool in place (path and
\* binary on disk, from an install of an earlier run or from before) and
\* called nothing
C11_Witness ==
  /\ pc = "extract"
  /\ install_path_exists
  /\ binary_present
  /\ install_result = "skipped"
  /\ install_calls = NoInstallerCalls

=============================================================================
